---- MODULE Spec2Model ----
(***************************************************************************)
(* Model of be/fastapi-backend/server.py: the CV upload endpoint (profile  *)
(* extraction fallback, job matching, ranking) and the job store           *)
(* endpoints, each request holding one database session from get_db.       *)
(*                                                                         *)
(* Strings are sequences of one-character strings, so that substring       *)
(* tests, lower(), strip(), split() and slicing are computed, not assumed. *)
(***************************************************************************)
EXTENDS Integers, Sequences, FiniteSets, TLC

VARIABLES store, pc, handler, request, status, resp, jobs, queries,
          sessionOpen, opens, closes,
          response_text, lines, skills, parsed,
          description, shown, summarised

vars == <<store, pc, handler, request, status, resp, jobs, queries,
          sessionOpen, opens, closes,
          response_text, lines, skills, parsed,
          description, shown, summarised>>

serverVars == <<store, pc, handler, request, status, resp, jobs, queries,
                sessionOpen, opens, closes>>
parseVars == <<response_text, lines, skills, parsed>>
truncVars == <<description, shown, summarised>>

(***************************************************************************)
(* Bounds of the model.                                                    *)
(***************************************************************************)
MaxJobs == 3
MaxBatch == 2
MaxSkills == 2
MaxLimit == 2
MaxLines == 2
MaxDescLen == 254

(***************************************************************************)
(* Python values.                                                          *)
(***************************************************************************)
\* Python's None for an Optional[str] column: a value no string equals.
None == <<"None">>

\* Truthiness of an Optional[str]: None and "" are falsy.
Truthy(s) == s # None /\ s # <<>>

\* `x or ''`
OrEmpty(s) == IF Truthy(s) THEN s ELSE <<>>

Min(a, b) == IF a <= b THEN a ELSE b

LowerChar(c) ==
    CASE c = "P" -> "p"
      [] c = "G" -> "g"
      [] c = "R" -> "r"
      [] c = "C" -> "c"
      [] OTHER -> c

\* str.lower()
Lower(s) == [i \in 1..Len(s) |-> LowerChar(s[i])]

Whitespace == {" ", "\t", "\r", "\n"}

RECURSIVE LStrip(_)
LStrip(s) == IF s # <<>> /\ Head(s) \in Whitespace THEN LStrip(Tail(s)) ELSE s

RECURSIVE RStrip(_)
RStrip(s) ==
    IF s # <<>> /\ s[Len(s)] \in Whitespace
    THEN RStrip(SubSeq(s, 1, Len(s) - 1))
    ELSE s

\* str.strip()
Strip(s) == RStrip(LStrip(s))

\* str.replace(c, '')
Remove(s, c) == SelectSeq(s, LAMBDA x : x # c)

\* `sub in s`
Contains(s, sub) ==
    \E i \in 0..(Len(s) - Len(sub)) : SubSeq(s, i + 1, i + Len(sub)) = sub

\* str.startswith(c) for a one-character prefix
StartsWith(s, c) == s # <<>> /\ Head(s) = c

\* str.split('\n'): the pieces between newlines, empty pieces kept.
RECURSIVE Split(_)
Split(s) ==
    IF \A i \in 1..Len(s) : s[i] # "\n"
    THEN <<s>>
    ELSE LET k == CHOOSE i \in 1..Len(s) :
                      s[i] = "\n" /\ \A j \in 1..(i - 1) : s[j] # "\n"
         IN <<SubSeq(s, 1, k - 1)>> \o Split(SubSeq(s, k + 1, Len(s)))

\* '\n'.join(ls)
RECURSIVE Join(_)
Join(ls) ==
    IF Len(ls) = 0 THEN <<>>
    ELSE IF Len(ls) = 1 THEN ls[1]
    ELSE ls[1] \o <<"\n">> \o Join(Tail(ls))

\* All sequences over S of length 0..n.
SeqsUpTo(S, n) == UNION {[1..k -> S] : k \in 0..n}

(***************************************************************************)
(* Profile extractor: the fallback parser of a response json.loads         *)
(* rejected (server.py 225-231).                                           *)
(***************************************************************************)
MinSkillLen == 2

\* line.strip().replace('"', '').replace(',', '').strip()
CleanLine(line) == Strip(Remove(Remove(Strip(line), "\""), ","))

KeepLineShort(line) ==
    /\ line # <<>>
    /\ Len(line) >= MinSkillLen
    /\ ~StartsWith(line, "{")
    /\ ~StartsWith(line, "}")

\* if line and len(line) > 2 and not line.startswith('{') and not line.startswith('}')
KeepLine(line) ==
    /\ line # <<>>
    /\ Len(line) > MinSkillLen
    /\ ~StartsWith(line, "{")
    /\ ~StartsWith(line, "}")

RECURSIVE CollectSkills(_)
CollectSkills(ls) ==
    IF ls = <<>> THEN <<>>
    ELSE LET line == CleanLine(Head(ls))
         IN (IF KeepLine(line) THEN <<line>> ELSE <<>>) \o CollectSkills(Tail(ls))

\* skills = []; for line in response_text.split('\n'): ... skills.append(line)
FallbackSkills(text) == CollectSkills(Split(text))

(***************************************************************************)
(* Job summary description (server.py 293).                                *)
(***************************************************************************)
DescLimit == 250

Ellipsis == <<".", ".", ".">>

TruncateDescriptionInside(d) ==
    IF Truthy(d) /\ Len(d) > DescLimit
    THEN SubSeq(d, 1, DescLimit - 3) \o Ellipsis
    ELSE d

\* job.description[:250] + "..." if job.description and len(job.description) > 250
\* else job.description
TruncateDescription(d) ==
    IF Truthy(d) /\ Len(d) > DescLimit
    THEN SubSeq(d, 1, DescLimit) \o Ellipsis
    ELSE d

(***************************************************************************)
(* Job store: the jobs table (server.py 42-57) and the JobCreate body      *)
(* (server.py 70-80). Only the columns the matcher reads are kept; the     *)
(* others are copied through unchanged by every endpoint.                  *)
(***************************************************************************)
JobPython ==
    [title |-> <<"P", "y", " ", "x">>, description |-> <<"y", " ", "g", "o">>,
     job_name |-> None]
JobGo == [title |-> <<"G", "o">>, description |-> None, job_name |-> <<"g", "o">>]
JobBlank == [title |-> <<>>, description |-> None, job_name |-> None]
JobNoTitle == [title |-> None, description |-> <<"g", "o">>, job_name |-> None]

\* Request bodies offered to POST /jobs and POST /jobs/bulk.
JobBodies == {JobPython, JobGo, JobBlank, JobNoTitle}

\* JobCreate: `title: str` is required, every other field Optional.
ValidJobCreate(job) == job.title # None

\* JobsDatabase(job_name=..., title=..., description=...), id from the primary
\* key sequence and created_at from default=datetime.utcnow, modelled as a
\* logical clock that advances with every inserted row.
NewRow(job, id) ==
    [id |-> id, title |-> job.title, description |-> job.description,
     job_name |-> job.job_name, created_at |-> id]

RECURSIVE NewRows(_, _)
NewRows(batch, firstId) ==
    IF batch = <<>> THEN <<>>
    ELSE <<NewRow(Head(batch), firstId)>> \o NewRows(Tail(batch), firstId + 1)

\* Session.flush inside db.commit(): the pending rows are INSERTed in order
\* inside the transaction; failAt = k > 0 is the store rejecting row k
\* (failAt = Len + 1: the COMMIT itself failing), failAt = 0 is no failure.
Flush(rows, failAt) ==
    [inserted |-> IF failAt = 0 THEN rows ELSE SubSeq(rows, 1, Min(failAt - 1, Len(rows))),
     raised |-> failAt # 0]

RollbackKeepsInserted(committed, inserted) == committed \o inserted

\* db.rollback(): the transaction's inserted rows are discarded.
Rollback(committed, inserted) == committed

\* db.add_all(db_jobs); db.commit(), and db.rollback() in the except branch.
CommitAll(committed, rows, failAt) ==
    LET f == Flush(rows, failAt)
    IN IF f.raised
       THEN [ok |-> FALSE, store |-> Rollback(committed, f.inserted)]
       ELSE [ok |-> TRUE, store |-> committed \o f.inserted]

(***************************************************************************)
(* Job matcher (server.py 249-301).                                        *)
(***************************************************************************)
OverFetch == 3
TitleWeight == 3
JobNameWeight == 2
DescriptionWeight == 1

\* SQL LIKE: % matches any run of characters, _ any one character.
RECURSIVE LikeMatch(_, _)
LikeMatch(p, s) ==
    IF p = <<>> THEN s = <<>>
    ELSE IF Head(p) = "%"
         THEN LikeMatch(Tail(p), s) \/ (s # <<>> /\ LikeMatch(p, Tail(s)))
         ELSE /\ s # <<>>
              /\ (Head(p) = "_" \/ Head(p) = Head(s))
              /\ LikeMatch(Tail(p), Tail(s))

\* column.ilike(f"%{keyword}%"): case-insensitive LIKE, NULL never matches.
Ilike(column, keyword) ==
    /\ column # None
    /\ LikeMatch(Lower(<<"%">> \o keyword \o <<"%">>), Lower(column))

\* keywords = [skill.lower().strip() for skill in skills]
Keywords(sk) == [i \in 1..Len(sk) |-> Strip(Lower(sk[i]))]

\* filter(or_(*or_conditions))
OrConditions(job, keywords) ==
    \E i \in 1..Len(keywords) :
        \/ Ilike(job.title, keywords[i])
        \/ Ilike(job.description, keywords[i])
        \/ Ilike(job.job_name, keywords[i])

\* order_by(created_at.desc()): insertion into a list kept newest first.
RECURSIVE OrderByCreatedDesc(_)
OrderByCreatedDesc(rows) ==
    IF rows = <<>> THEN <<>>
    ELSE LET rest == OrderByCreatedDesc(Tail(rows))
             x == Head(rows)
             n == Cardinality({i \in 1..Len(rest) : rest[i].created_at > x.created_at})
         IN SubSeq(rest, 1, n) \o <<x>> \o SubSeq(rest, n + 1, Len(rest))

\* db.query(JobsDatabase).filter(...).order_by(...).limit(limit * 3).all()
QueryJobs(committed, keywords, limit) ==
    LET hits == OrderByCreatedDesc(SelectSeq(committed, LAMBDA j : OrConditions(j, keywords)))
    IN SubSeq(hits, 1, Min(limit * OverFetch, Len(hits)))

\* f"{job.title or ''} {job.description or ''} {job.job_name or ''}".lower()
JobText(job) ==
    Lower(OrEmpty(job.title) \o <<" ">> \o OrEmpty(job.description)
          \o <<" ">> \o OrEmpty(job.job_name))

\* `job.field and keyword in job.field.lower()`
FieldHit(field, keyword) == Truthy(field) /\ Contains(Lower(field), keyword)

\* The inner loop over keywords (server.py 271-279).
RECURSIVE ScoreJob(_, _)
ScoreJob(job, keywords) ==
    IF keywords = <<>> THEN [matched_keywords |-> <<>>, relevance_score |-> 0]
    ELSE LET keyword == Head(keywords)
             rest == ScoreJob(job, Tail(keywords))
         IN IF Contains(JobText(job), keyword)
            THEN [matched_keywords |-> <<keyword>> \o rest.matched_keywords,
                  relevance_score |->
                      (IF FieldHit(job.title, keyword) THEN TitleWeight ELSE 0)
                      + (IF FieldHit(job.job_name, keyword) THEN JobNameWeight ELSE 0)
                      + (IF FieldHit(job.description, keyword) THEN DescriptionWeight ELSE 0)
                      + rest.relevance_score]
            ELSE rest

\* The loop over jobs (server.py 264-297): a job with matched keywords is appended.
RECURSIVE JobMatches(_, _)
JobMatches(js, keywords) ==
    IF js = <<>> THEN <<>>
    ELSE LET job == Head(js)
             sc == ScoreJob(job, keywords)
         IN (IF sc.matched_keywords # <<>>
             THEN <<[job |-> [id |-> job.id, title |-> job.title,
                              description |-> TruncateDescription(job.description)],
                     relevance_score |-> sc.relevance_score,
                     matched_skills |-> sc.matched_keywords]>>
             ELSE <<>>) \o JobMatches(Tail(js), keywords)

\* Insertion of x into a list sorted by descending score, after `n` entries.
InsertAt(sorted, x, n) == SubSeq(sorted, 1, n) \o <<x>> \o SubSeq(sorted, n + 1, Len(sorted))

RECURSIVE SortAscending(_)
SortAscending(ms) ==
    IF ms = <<>> THEN <<>>
    ELSE LET init == SortAscending(SubSeq(ms, 1, Len(ms) - 1))
             x == ms[Len(ms)]
         IN InsertAt(init, x,
                Cardinality({i \in 1..Len(init) : init[i].relevance_score <= x.relevance_score}))

RECURSIVE SortUnstable(_)
SortUnstable(ms) ==
    IF ms = <<>> THEN <<>>
    ELSE LET init == SortUnstable(SubSeq(ms, 1, Len(ms) - 1))
             x == ms[Len(ms)]
         IN InsertAt(init, x,
                Cardinality({i \in 1..Len(init) : init[i].relevance_score > x.relevance_score}))

\* job_matches.sort(key=lambda x: x["relevance_score"], reverse=True): list.sort
\* is stable, also with reverse=True, so an entry goes after the earlier
\* entries whose score is greater than or equal to its own.
RECURSIVE SortByRelevance(_)
SortByRelevance(ms) ==
    IF ms = <<>> THEN <<>>
    ELSE LET init == SortByRelevance(SubSeq(ms, 1, Len(ms) - 1))
             x == ms[Len(ms)]
         IN InsertAt(init, x,
                Cardinality({i \in 1..Len(init) : init[i].relevance_score >= x.relevance_score}))

\* job_matches[:limit]
Truncate(ms, limit) == SubSeq(ms, 1, Min(limit, Len(ms)))

NoSkillsMessage == <<"No skills extracted - unable to match jobs">>

FoundMessage(n) == <<"Found", n, "matching jobs for your profile!">>

NotSkillsIsNone(sk) == sk = None

\* `not skills`
NotSkills(sk) == sk = <<>>

(***************************************************************************)
(* POST /upload-cv (server.py 166-323).                                    *)
(***************************************************************************)
\* What the model service may answer with: entries of a "skills" array.
SkillVocab ==
    {<<" ", "P", "y">>, <<"g", "o">>, <<>>, <<"x", " ", "y">>, <<"p", "y", "_", "x">>}

\* Skills lists of up to MaxSkills distinct entries, in every order.
SkillLists ==
    {sk \in SeqsUpTo(SkillVocab, MaxSkills) :
         \A i, j \in 1..Len(sk) : i # j => sk[i] # sk[j]}

\* Responses json.loads rejects, as the fallback parser receives them.
BadTexts ==
    {<<"{", "\n", "\"", "x", " ", "y", "\"", ",", "\n", "}", ",">>,
     <<"g", "o", "\n", "{", "P", "y">>}

\* cv_processor_agent.run(cv_text): it raises, or answers with JSON carrying
\* a skills list, or answers with text that is not JSON.
AgentOutcomes ==
    {[kind |-> "raises"]}
        \cup {[kind |-> "json", skills |-> sk] : sk \in SkillLists}
        \cup {[kind |-> "text", text |-> t] : t \in BadTexts}

\* The uploaded file: its name ends in .pdf or not, and PyPDF2 extracts
\* text from it or not (extract_text_from_pdf raises 400).
Files ==
    {[pdf |-> TRUE, text |-> TRUE], [pdf |-> TRUE, text |-> FALSE],
     [pdf |-> FALSE, text |-> FALSE]}

\* The agent runs only on text extracted from a .pdf upload.
AgentFor(file) == IF file.pdf /\ file.text THEN AgentOutcomes ELSE {[kind |-> "raises"]}

Failure(code, detail) == [status |-> code, body |-> [detail |-> detail], jobs |-> <<>>, queries |-> 0]

upload_cv_and_get_jobs(file, limit, agent, committed) ==
    IF ~file.pdf THEN Failure(400, "Only PDF files are supported")
    ELSE IF ~file.text THEN Failure(400, "Error processing PDF")
    ELSE IF agent.kind = "raises" THEN Failure(500, "Error processing CV")
    ELSE LET sk == IF agent.kind = "json" THEN agent.skills ELSE FallbackSkills(agent.text)
         IN IF NotSkills(sk)
            THEN [status |-> 200,
                  body |-> [cv_review |-> [skills |-> sk],
                            matching_jobs |-> <<>>,
                            message |-> NoSkillsMessage],
                  jobs |-> <<>>, queries |-> 0]
            ELSE LET keywords == Keywords(sk)
                     js == QueryJobs(committed, keywords, limit)
                     job_matches == Truncate(SortByRelevance(JobMatches(js, keywords)), limit)
                 IN [status |-> 200,
                     body |-> [success |-> TRUE,
                               cv_review |-> [extracted_skills |-> sk],
                               job_recommendations |->
                                   [total_matches |-> Len(job_matches), jobs |-> job_matches],
                               message |-> FoundMessage(Len(job_matches))],
                     jobs |-> js, queries |-> 1]

(***************************************************************************)
(* State: the committed jobs table, the request in progress and its        *)
(* session. Requests are served one at a time.                             *)
(***************************************************************************)
NoRequest == [endpoint |-> "none"]
NoBody == [none |-> TRUE]

ParseIdle ==
    /\ response_text = <<>> /\ lines = <<>> /\ skills = <<>> /\ parsed = FALSE

TruncIdle ==
    /\ description = None /\ shown = None /\ summarised = FALSE

ServerIdle ==
    /\ store = <<>>
    /\ pc = "idle"
    /\ handler = "none"
    /\ request = NoRequest
    /\ status = 0
    /\ resp = NoBody
    /\ jobs = <<>>
    /\ queries = 0
    /\ sessionOpen = FALSE
    /\ opens = 0
    /\ closes = 0

Init == ServerIdle /\ ParseIdle /\ TruncIdle

\* get_db up to the yield: db = SessionLocal().
Acquire ==
    /\ pc \in {"idle", "done"}
    /\ pc' = "acquired"
    /\ sessionOpen' = TRUE
    /\ opens' = 1
    /\ closes' = 0
    /\ handler' = "none"
    /\ status' = 0
    /\ UNCHANGED <<store, request, resp, jobs, queries>>
    /\ UNCHANGED <<parseVars, truncVars>>

UploadCv ==
    /\ pc = "acquired"
    /\ \E file \in Files, limit \in 1..MaxLimit :
       \E agent \in AgentFor(file) :
           LET r == upload_cv_and_get_jobs(file, limit, agent, store)
           IN /\ request' = [endpoint |-> "upload_cv", file |-> file,
                              limit |-> limit, agent |-> agent]
              /\ status' = r.status
              /\ resp' = r.body
              /\ jobs' = r.jobs
              /\ queries' = r.queries
    /\ handler' = "upload_cv_and_get_jobs"
    /\ pc' = "returned"
    /\ UNCHANGED <<store, sessionOpen, opens, closes>>
    /\ UNCHANGED <<parseVars, truncVars>>

\* POST /jobs (server.py 328-370); a body without a title is rejected with
\* 422 before the handler body runs.
create_job ==
    /\ pc = "acquired"
    /\ Len(store) + 1 <= MaxJobs
    /\ \E job \in JobBodies, fails \in BOOLEAN :
           LET r == CommitAll(store, <<NewRow(job, Len(store) + 1)>>, IF fails THEN 1 ELSE 0)
           IN /\ request' = [endpoint |-> "create_job", job |-> job]
              /\ IF ~ValidJobCreate(job)
                 THEN status' = 422 /\ store' = store
                 ELSE /\ status' = (IF r.ok THEN 200 ELSE 500)
                      /\ store' = r.store
    /\ handler' = "create_job"
    /\ resp' = NoBody
    /\ pc' = "returned"
    /\ UNCHANGED <<jobs, queries, sessionOpen, opens, closes>>
    /\ UNCHANGED <<parseVars, truncVars>>

\* POST /jobs/bulk (server.py 372-422).
create_jobs_bulk ==
    /\ pc = "acquired"
    /\ \E batch \in SeqsUpTo(JobBodies, MaxBatch) :
           /\ Len(store) + Len(batch) <= MaxJobs
           /\ \E failAt \in 0..(Len(batch) + 1) :
                  LET r == CommitAll(store, NewRows(batch, Len(store) + 1), failAt)
                  IN /\ request' = [endpoint |-> "create_jobs_bulk", jobs |-> batch]
                     /\ IF \E i \in 1..Len(batch) : ~ValidJobCreate(batch[i])
                        THEN status' = 422 /\ store' = store
                        ELSE /\ status' = (IF r.ok THEN 200 ELSE 500)
                             /\ store' = r.store
    /\ handler' = "create_jobs_bulk"
    /\ resp' = NoBody
    /\ pc' = "returned"
    /\ UNCHANGED <<jobs, queries, sessionOpen, opens, closes>>
    /\ UNCHANGED <<parseVars, truncVars>>

\* GET /jobs/{job_id} (server.py 450-456).
get_job ==
    /\ pc = "acquired"
    /\ \E job_id \in 1..MaxJobs :
           /\ request' = [endpoint |-> "get_job", job_id |-> job_id]
           /\ status' = (IF \E i \in 1..Len(store) : store[i].id = job_id THEN 200 ELSE 404)
    /\ handler' = "get_job"
    /\ resp' = NoBody
    /\ queries' = 1
    /\ pc' = "returned"
    /\ UNCHANGED <<store, jobs, sessionOpen, opens, closes>>
    /\ UNCHANGED <<parseVars, truncVars>>

ClosedOnReturnOnly(code, open) == IF code = 200 THEN FALSE ELSE open

\* get_db after the yield: `finally: db.close()`, whatever the handler's
\* outcome; the result is whether the session is still open. The response
\* has been handed over: the request's working state is dropped, its
\* handler and status stay on record until the next request.
get_db_finally(code, open) == FALSE

Release ==
    /\ pc = "returned"
    /\ sessionOpen' = get_db_finally(status, sessionOpen)
    /\ closes' = (IF sessionOpen /\ ~sessionOpen' THEN closes + 1 ELSE closes)
    /\ pc' = "done"
    /\ request' = NoRequest
    /\ resp' = NoBody
    /\ jobs' = <<>>
    /\ queries' = 0
    /\ UNCHANGED <<store, handler, status, opens>>
    /\ UNCHANGED <<parseVars, truncVars>>

Handle == UploadCv \/ create_job \/ create_jobs_bulk \/ get_job

Next == Acquire \/ UploadCv \/ create_job \/ create_jobs_bulk \/ get_job \/ Release

Spec == Init /\ [][Next]_vars

\* A handler that has its session returns or raises, and the dependency's
\* exit code then runs: the framework drives both without outside help.
FairSpec == Spec /\ WF_vars(Handle) /\ WF_vars(Release)

(***************************************************************************)
(* The fallback parser on its own, over responses of up to MaxLines lines. *)
(***************************************************************************)
SampleLines ==
    {<<>>,
     <<"{">>,
     <<"}">>,
     <<" ", " ", "\"", "P", "y", "t", "\"", ",">>,
     <<"\"", "g", "o", "\"", ",">>,
     <<"\"", "{", "a", "b", "}", "\"">>,
     <<"\"", " ", "R", "u", "s", "t", " ", "\"", ",", "\r">>,
     <<"a", ",", "b">>,
     <<"}", "a", "b", "c">>,
     <<"\"", ",", ",", "\"">>,
     <<"x", " ", "y">>,
     <<"\t", "C", "+", "+", ",", " ">>}

InitParse ==
    /\ ServerIdle /\ TruncIdle
    /\ lines \in (SeqsUpTo(SampleLines, MaxLines) \ {<<>>})
    /\ response_text = Join(lines)
    /\ skills = <<>>
    /\ parsed = FALSE

ParseFallback ==
    /\ ~parsed
    /\ skills' = FallbackSkills(response_text)
    /\ parsed' = TRUE
    /\ UNCHANGED <<response_text, lines, serverVars, truncVars>>

NextParse == ParseFallback

SpecParse == InitParse /\ [][NextParse]_vars

(***************************************************************************)
(* The description of a returned job on its own, over descriptions of up   *)
(* to MaxDescLen characters.                                               *)
(***************************************************************************)
Digits == <<"0", "1", "2", "3", "4", "5", "6", "7", "8", "9">>

DescOf(n, k) == [i \in 1..n |-> Digits[((i + k) % 10) + 1]]

Descriptions == {None} \cup {DescOf(n, k) : n \in 0..MaxDescLen, k \in 0..1}

InitTrunc ==
    /\ ServerIdle /\ ParseIdle
    /\ description \in Descriptions
    /\ shown = None
    /\ summarised = FALSE

Summarise ==
    /\ ~summarised
    /\ shown' = TruncateDescription(description)
    /\ summarised' = TRUE
    /\ UNCHANGED <<description, serverVars, parseVars>>

NextTrunc == Summarise

SpecTrunc == InitTrunc /\ [][NextTrunc]_vars

(***************************************************************************)
(* Properties.                                                             *)
(***************************************************************************)
\* The upload handler has returned 200.
UploadReturned ==
    pc = "returned" /\ handler = "upload_cv_and_get_jobs" /\ status = 200

\* ... with job recommendations (the skills list was not empty).
Recommended == UploadReturned /\ resp.message # NoSkillsMessage

Returned == resp.job_recommendations.jobs

\* The skills list the handler extracts from the agent's answer.
ExtractedSkills(agent) ==
    IF agent.kind = "json" THEN agent.skills ELSE FallbackSkills(agent.text)

RequestKeywords == Keywords(ExtractedSkills(request.agent))

\* Position of a posting in the candidates as the store returned them.
Pos(id) == CHOOSE k \in 1..Len(jobs) : jobs[k].id = id

Candidate(id) == jobs[Pos(id)]

\* Whether the candidate counts keyword k as matched.
Counted(job, k) == Contains(JobText(job), k)

\* C1: every returned job match has relevance_score >= 1 and a non-empty
\* matched_skills list.
C1_EveryMatchScores ==
    Recommended =>
        \A i \in 1..Len(Returned) :
            /\ Returned[i].relevance_score >= 1
            /\ Returned[i].matched_skills # <<>>

\* The weights as the specification states them: a field adds its weight when
\* the keyword is a substring of the lower-cased field.
StatedWeight(job, k) ==
    (IF job.title # None /\ Contains(Lower(job.title), k) THEN 3 ELSE 0)
    + (IF job.job_name # None /\ Contains(Lower(job.job_name), k) THEN 2 ELSE 0)
    + (IF job.description # None /\ Contains(Lower(job.description), k) THEN 1 ELSE 0)

RECURSIVE StatedScore(_, _)
StatedScore(job, ks) ==
    IF ks = <<>> THEN 0
    ELSE (IF Counted(job, Head(ks)) THEN StatedWeight(job, Head(ks)) ELSE 0)
         + StatedScore(job, Tail(ks))

\* C2: relevance_score is the sum over the matched keywords of 3 (title),
\* 2 (job_name), 1 (description) for each field that contains the keyword, and
\* matched_skills is the matched keywords in keyword-list order.
C2_ScoreIsWeightedSum ==
    Recommended =>
        \A i \in 1..Len(Returned) :
            LET job == Candidate(Returned[i].job.id)
            IN /\ Returned[i].relevance_score = StatedScore(job, RequestKeywords)
               /\ Returned[i].matched_skills
                      = SelectSeq(RequestKeywords, LAMBDA k : Counted(job, k))

\* C3: the returned matches are non-increasing in relevance_score.
C3_SortedByScore ==
    Recommended =>
        \A i \in 1..(Len(Returned) - 1) :
            Returned[i].relevance_score >= Returned[i + 1].relevance_score

\* Two returned matches of different score that the store returned in the
\* opposite order: the sort has moved them.
C3_Witness ==
    /\ Recommended
    /\ \E i, j \in 1..Len(Returned) :
           /\ i < j
           /\ Returned[i].relevance_score > Returned[j].relevance_score
           /\ Pos(Returned[i].job.id) > Pos(Returned[j].job.id)

\* C4: at most `limit` matches are returned, and at most as many as there are
\* retrieved candidates with a non-zero relevance_score.
C4_AtMostLimitAndScored ==
    Recommended =>
        /\ Len(Returned) <= request.limit
        /\ Len(Returned) <=
               Cardinality({k \in 1..Len(jobs) :
                   ScoreJob(jobs[k], RequestKeywords).relevance_score # 0})

\* C5: an empty skills list gives the empty job list with the "no skills
\* extracted" message and no store query, and no other response of the
\* endpoint carries that message: a non-empty skills list that matches
\* nothing answers differently.
C5_NoSkillsIsDistinct ==
    UploadReturned =>
        IF ExtractedSkills(request.agent) = <<>>
        THEN /\ resp.message = NoSkillsMessage
             /\ resp.matching_jobs = <<>>
             /\ queries = 0
             /\ jobs = <<>>
        ELSE /\ resp.message # NoSkillsMessage
             /\ resp.message = FoundMessage(Len(Returned))

\* The "no skills" answer over a store that holds postings.
C5_Witness ==
    /\ UploadReturned
    /\ ExtractedSkills(request.agent) = <<>>
    /\ store # <<>>

\* A zero-match answer after a non-empty skills list.
C5_ZeroMatchReached ==
    /\ Recommended
    /\ Returned = <<>>

\* The columns of a stored row are those of the request body.
SameColumns(row, job) ==
    /\ row.title = job.title
    /\ row.description = job.description
    /\ row.job_name = job.job_name

\* C6: a bulk create that fails leaves the store as it was before the request,
\* and one that succeeds has appended every posting of the batch.
C6_BulkAllOrNothing ==
    [][(pc = "acquired" /\ handler' = "create_jobs_bulk") =>
          IF status' = 200
          THEN /\ Len(store') = Len(store) + Len(request'.jobs)
               /\ SubSeq(store', 1, Len(store)) = store
               /\ \A i \in 1..Len(request'.jobs) :
                      SameColumns(store'[Len(store) + i], request'.jobs[i])
          ELSE store' = store]_vars

\* A batch of several valid postings that failed at the store, over a
\* store that already holds postings.
C6_Witness ==
    /\ pc = "returned"
    /\ handler = "create_jobs_bulk"
    /\ status = 500
    /\ Len(request.jobs) >= 2
    /\ store # <<>>

\* C7: a request's session is closed exactly once after its handler has
\* returned or raised, whatever the status; no session is open once the
\* request has completed; and an open session is eventually closed.
C7_SessionReleased ==
    /\ [](pc \in {"idle", "done"} => ~sessionOpen)
    /\ [](pc = "done" => closes = 1 /\ opens = 1)
    /\ [](closes <= opens)
    /\ (sessionOpen ~> ~sessionOpen)

\* A request that ended in an error status and whose session is closed.
C7_Witness ==
    /\ pc = "done"
    /\ status \in {400, 404, 422, 500}
    /\ closes = 1
    /\ ~sessionOpen

\* A response line as the specification describes its entry: double quotes
\* and commas removed, surrounding whitespace trimmed.
StatedEntry(line) == Strip(SelectSeq(line, LAMBDA c : c \notin {"\"", ","}))

\* C8: the fallback skills hold no empty string, no string of length <= 2 and
\* no string starting with a brace; each entry is a response line, cleaned,
\* and the entries are in line order.
C8_FallbackSkillsClean ==
    parsed =>
        /\ \A i \in 1..Len(skills) :
               /\ skills[i] # <<>>
               /\ Len(skills[i]) > 2
               /\ skills[i][1] \notin {"{", "}"}
        /\ \E f \in [1..Len(skills) -> 1..Len(lines)] :
               /\ \A i \in 1..Len(skills) : skills[i] = StatedEntry(lines[f[i]])
               /\ \A i, j \in 1..Len(skills) : i < j => f[i] < f[j]

\* A response of which one line became a skill, changed by the cleaning,
\* and another line was dropped.
C8_Witness ==
    /\ parsed
    /\ Len(skills) = 1
    /\ Len(lines) = 2
    /\ \A i \in 1..Len(lines) : lines[i] # skills[1]

\* C9: a description longer than 250 characters is returned as its first 250
\* characters followed by "...", 253 characters in all; a shorter or absent
\* one is returned unchanged.
C9_DescriptionTruncated ==
    summarised =>
        IF description # None /\ Len(description) > 250
        THEN /\ Len(shown) = 253
             /\ \A i \in 1..250 : shown[i] = description[i]
             /\ \A i \in 251..253 : shown[i] = "."
        ELSE shown = description

C9_Witness ==
    /\ summarised
    /\ description # None
    /\ Len(description) > 250
    /\ shown # description

\* The candidates that matched but are not among the returned matches.
Dropped ==
    {k \in 1..Len(jobs) :
        /\ ScoreJob(jobs[k], RequestKeywords).matched_keywords # <<>>
        /\ \A i \in 1..Len(Returned) : Returned[i].job.id # jobs[k].id}

\* C10: the store returns the candidates most recent first; returned matches
\* of equal score keep that order; and a match that was cut off scores no
\* higher than any returned one and, at equal score, came later in it.
C10_StableThenTruncated ==
    Recommended =>
        /\ \A a, b \in 1..Len(jobs) :
               a < b => jobs[a].created_at >= jobs[b].created_at
        /\ \A i, j \in 1..Len(Returned) :
               (i < j /\ Returned[i].relevance_score = Returned[j].relevance_score)
                   => Pos(Returned[i].job.id) < Pos(Returned[j].job.id)
        /\ \A k \in Dropped : \A i \in 1..Len(Returned) :
               LET s == ScoreJob(jobs[k], RequestKeywords).relevance_score
               IN \/ Returned[i].relevance_score > s
                  \/ (Returned[i].relevance_score = s /\ Pos(Returned[i].job.id) < k)

\* Two returned matches of equal score, and a third of that score cut off.
C10_Witness ==
    /\ Recommended
    /\ Len(Returned) >= 2
    /\ Returned[1].relevance_score = Returned[2].relevance_score
    /\ \E k \in Dropped :
           ScoreJob(jobs[k], RequestKeywords).relevance_score
               = Returned[Len(Returned)].relevance_score

====
